---------------------------- MODULE Spec2Model ----------------------------
(***************************************************************************)
(* Model of the "beacon deposit" command of ethereal                       *)
(* (src/cmd/beacondeposit.go): contract resolution, the validation loop,   *)
(* the offline and online send loops and the duplicate check against the   *)
(* subgraph.                                                               *)
(*                                                                         *)
(* Amounts are 64-bit machine integers and big.Int values in the source.   *)
(* They are modelled exactly, as little-endian sequences of 16-bit limbs   *)
(* without high zero limbs (zero is the empty sequence), so that the       *)
(* thresholds 1000000000 and 32000000000 and the wrap-around at 2^63 and   *)
(* 2^64 are the ones of the program.                                       *)
(***************************************************************************)
EXTENDS Integers, Sequences, FiniteSets, TLC

---------------------------------------------------------------------------
(* Natural numbers below 2^96 (math/big.Int values of this command, and    *)
(* the carrier of uint64 and int64 bit patterns): six limbs of 16 bits,    *)
(* least significant first.                                                *)

Zero == <<0, 0, 0, 0, 0, 0>>

\* The number n, for 0 <= n < 2^31.
NatOfInt(n) == <<n % 65536, n \div 65536, 0, 0, 0, 0>>

NatAdd(x, y) ==
    LET s1 == x[1] + y[1]
        s2 == x[2] + y[2] + s1 \div 65536
        s3 == x[3] + y[3] + s2 \div 65536
        s4 == x[4] + y[4] + s3 \div 65536
        s5 == x[5] + y[5] + s4 \div 65536
        s6 == x[6] + y[6] + s5 \div 65536
    IN  <<s1 % 65536, s2 % 65536, s3 % 65536, s4 % 65536, s5 % 65536, s6 % 65536>>

\* x * m for a small multiplier m (m < 32768 keeps every limb product in range).
NatMulSmall(x, m) ==
    LET p1 == x[1] * m
        p2 == x[2] * m + p1 \div 65536
        p3 == x[3] * m + p2 \div 65536
        p4 == x[4] * m + p3 \div 65536
        p5 == x[5] * m + p4 \div 65536
        p6 == x[6] * m + p5 \div 65536
    IN  <<p1 % 65536, p2 % 65536, p3 % 65536, p4 % 65536, p5 % 65536, p6 % 65536>>

\* x * 1000000000
NatMulE9(x) == NatMulSmall(NatMulSmall(NatMulSmall(x, 1000), 1000), 1000)

\* -1, 0 or 1 as x is less than, equal to or greater than y.
NatCmp(x, y) ==
    LET differ == {k \in 1..6 : x[k] # y[k]}
    IN  IF differ = {} THEN 0
        ELSE LET top == CHOOSE k \in differ : \A j \in differ : j <= k
             IN  IF x[top] < y[top] THEN -1 ELSE 1

NatLe(x, y) == NatCmp(x, y) <= 0
NatLt(x, y) == NatCmp(x, y) < 0

\* The number a * 10^18 + b * 10^9 + c, for a, b, c < 10^9.
Dec3(a, b, c) ==
    NatAdd(NatMulE9(NatAdd(NatMulE9(NatOfInt(a)), NatOfInt(b))), NatOfInt(c))

\* The low 64 bits of x: a uint64 conversion, unsigned wrap-around, and
\* big.Int.Uint64().
Trunc64(x) == <<x[1], x[2], x[3], x[4], 0, 0>>

\* An int64 is carried as its 64-bit two's complement pattern.
IsNeg64(x) == x[4] >= 32768

\* Signed comparison a > b of two int64 patterns.
Int64Gt(a, b) ==
    IF IsNeg64(a) # IsNeg64(b) THEN IsNeg64(b) ELSE NatCmp(a, b) > 0

Int64Ge(a, b) == a = b \/ Int64Gt(a, b)

\* Signed addition of two int64 patterns (wraps silently in Go).
Int64Add(a, b) == Trunc64(NatAdd(a, b))

---------------------------------------------------------------------------
(* Text.  A string whose characters matter is a sequence of one-character  *)
(* strings.                                                                *)

DecDigits == {"0", "1", "2", "3", "4", "5", "6", "7", "8", "9"}

DigitVal(ch) ==
    CASE ch = "0" -> 0 [] ch = "1" -> 1 [] ch = "2" -> 2 [] ch = "3" -> 3
      [] ch = "4" -> 4 [] ch = "5" -> 5 [] ch = "6" -> 6 [] ch = "7" -> 7
      [] ch = "8" -> 8 [] ch = "9" -> 9

Zeros(n) == [k \in 1..n |-> "0"]

\* The sequences over S of length at most n.
RECURSIVE SeqsUpTo(_, _)
SeqsUpTo(S, n) ==
    IF n = 0 THEN {<<>>}
    ELSE LET shorter == SeqsUpTo(S, n - 1)
         IN  shorter \cup {Append(q, e) : q \in shorter, e \in S}

MaxUint64 == Dec3(18, 446744073, 709551615)

\* The number written by the k <= 4 digits of s that start at position from.
RECURSIVE IntOfDigits(_, _, _)
IntOfDigits(s, from, k) ==
    IF k = 0 THEN 0
    ELSE IntOfDigits(s, from, k - 1) * 10 + DigitVal(s[from + k - 1])

Pow10(k) == CASE k = 0 -> 1 [] k = 1 -> 10 [] k = 2 -> 100 [] k = 3 -> 1000
              [] k = 4 -> 10000

\* The value of the first n digits of s, four digits at a step, or
\* MaxUint64 + 1 once it has left the range of uint64 (the cut-off of
\* strconv.ParseUint).
RECURSIVE DecValue(_, _)
DecValue(s, n) ==
    IF n = 0 THEN Zero
    ELSE LET k == IF n < 4 THEN n ELSE 4
             acc == DecValue(s, n - k)
             nxt == NatAdd(NatMulSmall(acc, Pow10(k)),
                           NatOfInt(IntOfDigits(s, n - k + 1, k)))
         IN  IF NatLe(acc, MaxUint64) /\ NatLe(nxt, MaxUint64) THEN nxt
             ELSE NatAdd(MaxUint64, NatOfInt(1))

\* strconv.ParseUint(s, 10, 64): a syntax error for the empty string and for
\* any character that is not a decimal digit, a range error above 2^64 - 1.
ParseUint(s) ==
    IF s = <<>> \/ \E k \in 1..Len(s) : s[k] \notin DecDigits
    THEN [err |-> TRUE, val |-> Zero]
    ELSE LET v == DecValue(s, Len(s))
         IN  IF NatLe(v, MaxUint64) THEN [err |-> FALSE, val |-> v]
             ELSE [err |-> TRUE, val |-> MaxUint64]

---------------------------------------------------------------------------
VARIABLES
    \* command-line flags and connection (fixed during a run)
    beaconDepositAllowOldData, beaconDepositAllowNewData,
    beaconDepositAllowExcessiveDeposit, beaconDepositAllowUnknownContract,
    beaconDepositAllowDuplicateDeposit, beaconDepositForceZeroValue,
    beaconDepositContractAddress, beaconDepositEth2Network,
    beaconDepositOverrideGas, offline, value, chainID,
    \* the run of the command
    depositInfo,    \* the loaded batch
    contract,       \* the resolved contract details
    pc,             \* position in Run / sendOffline / sendOnline
    idx,            \* index of the record the current loop is at
    opts,           \* transaction options of the record being sent online
    printed,        \* signed transactions printed by sendOffline
    submitted,      \* transactions submitted by sendOnline
    graphLog,       \* the subgraph queries made, with their outcome
    exit,           \* how the process ended
    \* a single function applied to chosen arguments
    call, ret

flagVars == <<beaconDepositAllowOldData, beaconDepositAllowNewData,
              beaconDepositAllowExcessiveDeposit, beaconDepositAllowUnknownContract,
              beaconDepositAllowDuplicateDeposit, beaconDepositForceZeroValue,
              beaconDepositContractAddress, beaconDepositEth2Network,
              beaconDepositOverrideGas, offline, value, chainID>>

runVars == <<depositInfo, contract, pc, idx, opts, printed, submitted, graphLog, exit>>

vars == <<flagVars, runVars, call, ret>>

---------------------------------------------------------------------------
(* graphCheck                                                              *)

NoErr == "nil"

NoContract == [known |-> FALSE]
NoOpts == [set |-> FALSE]
NoExit == [done |-> FALSE]
NoValue == [text |-> "", wei |-> Zero, bad |-> FALSE]

\* errors.Wrap(err, msg): nil when err is nil.
Wrap(err, kind) == IF err = NoErr THEN NoErr ELSE kind

Gwei32 == Dec3(0, 32, 0)    \* 32000000000

\* The shape of a response: the outcome of the POST and of the decoding, the
\* errors member and the data member (either may be missing).
NoErrors == [present |-> FALSE, list |-> <<>>]
NoData == [present |-> FALSE, deposits |-> <<>>]

DataResponse(deposits) ==
    [status |-> "ok", errors |-> NoErrors,
     data |-> [present |-> TRUE, deposits |-> deposits]]

\* The loop of lines 382-388: the running int64 total, or the parse error.
RECURSIVE SumDeposits(_, _)
SumDeposits(deposits, totalDeposited) ==
    IF deposits = <<>> THEN [err |-> FALSE, total |-> totalDeposited]
    ELSE LET depositAmount == ParseUint(Head(deposits))
         IN  IF depositAmount.err THEN [err |-> TRUE, total |-> totalDeposited]
             ELSE SumDeposits(Tail(deposits),
                              Int64Add(totalDeposited, depositAmount.val))

\* A plausible slip in checkTotals: the first comparison strict.
checkTotalsStrict(totalDeposited, amount) ==
    IF Int64Gt(totalDeposited, Gwei32) /\ ~beaconDepositAllowDuplicateDeposit
    THEN "ValidatorAlreadyFunded"
    ELSE IF Int64Gt(Int64Add(totalDeposited, amount), Gwei32)
            /\ ~(beaconDepositAllowDuplicateDeposit
                 \/ beaconDepositAllowExcessiveDeposit)
    THEN "WouldExceedEffectiveLimit"
    ELSE NoErr

\* The two threshold tests of lines 389-400 on the int64 total and
\* int64(amount).
checkTotals(totalDeposited, amount) ==
    IF Int64Ge(totalDeposited, Gwei32) /\ ~beaconDepositAllowDuplicateDeposit
    THEN "ValidatorAlreadyFunded"
    ELSE IF Int64Gt(Int64Add(totalDeposited, amount), Gwei32)
            /\ ~(beaconDepositAllowDuplicateDeposit
                 \/ beaconDepositAllowExcessiveDeposit)
    THEN "WouldExceedEffectiveLimit"
    ELSE NoErr

\* graphCheck(subgraph, validatorPubKey, amount, withdrawalCredentials) for the
\* response resp the POST produces.  The result is NoErr (nil), an error, or
\* "panic" for the run-time panic of indexing an empty errors array.  At
\* line 378 err is the nil left by the successful io.ReadAll, so the wrapped
\* error is nil.
graphCheck(resp, amount) ==
    IF resp.status = "post_failed" THEN Wrap("post", "IndexerUnavailable")
    ELSE IF resp.status = "read_failed" THEN Wrap("read", "IndexerUnavailable")
    ELSE IF resp.status = "bad_json" THEN Wrap("json", "IndexerUnavailable")
    ELSE IF resp.errors.present
    THEN IF resp.errors.list = <<>> THEN "panic"
         ELSE Wrap(NoErr, "IndexerError")
    ELSE IF resp.data.present /\ Len(resp.data.deposits) > 0
    THEN LET sum == SumDeposits(resp.data.deposits, Zero)
         IN  IF sum.err THEN Wrap("parse", "IndexerUnavailable")
             ELSE checkTotals(sum.total, amount)
    ELSE NoErr

---------------------------------------------------------------------------
(* The registry of known deposit contracts and its lookup.                 *)

\* util.MustDecodeHexString("0x..."): the bytes the hexadecimal text denotes.
\* 0x00000000219ab540356cBB839Cbe05303d7705Fa
AddressMainnet ==
    <<0, 0, 0, 0, 33, 154, 181, 64, 53, 108, 187, 131, 156, 190, 5, 48, 61,
    119, 5, 250>>

\* 0x6f22fFbC56eFF051aECF839396DD1eD9aD6BBA9D
AddressRopsten ==
    <<111, 34, 255, 188, 86, 239, 240, 81, 174, 207, 131, 147, 150, 221, 30,
    217, 173, 107, 186, 157>>

\* 0xff50ed3d0ec03aC01D4C79aAd74928BFF48a7b2b
AddressPrater ==
    <<255, 80, 237, 61, 14, 192, 58, 192, 29, 76, 121, 170, 215, 73, 40, 191,
    244, 138, 123, 43>>

\* 0x4242424242424242424242424242424242424242
AddressKiln ==
    <<66, 66, 66, 66, 66, 66, 66, 66, 66, 66, 66, 66, 66, 66, 66, 66, 66, 66,
    66, 66>>

\* 0x7f02C3E3c98b133055B8B348B2Ac625669Ed295D
AddressSepolia ==
    <<127, 2, 195, 227, 201, 139, 19, 48, 85, 184, 179, 72, 178, 172, 98, 86,
    105, 237, 41, 93>>

beaconDepositKnownContracts == <<
    [network |-> <<"M", "a", "i", "n", "n", "e", "t">>, chainID |-> 1,
     address |-> AddressMainnet, forkVersion |-> <<0, 0, 0, 0>>,
     minVersion |-> 3, maxVersion |-> 4, subgraph |-> "attestantio/eth2deposits"],
    [network |-> <<"R", "o", "p", "s", "t", "e", "n">>, chainID |-> 3,
     address |-> AddressRopsten, forkVersion |-> <<128, 0, 0, 105>>,
     minVersion |-> 3, maxVersion |-> 4, subgraph |-> ""],
    [network |-> <<"P", "r", "a", "t", "e", "r">>, chainID |-> 5,
     address |-> AddressPrater, forkVersion |-> <<0, 0, 16, 32>>,
     minVersion |-> 3, maxVersion |-> 4, subgraph |-> "attestantio/eth2deposits-prater"],
    [network |-> <<"K", "i", "l", "n">>, chainID |-> 1337802,
     address |-> AddressKiln, forkVersion |-> <<112, 0, 0, 105>>,
     minVersion |-> 3, maxVersion |-> 4, subgraph |-> ""],
    [network |-> <<"S", "e", "p", "o", "l", "i", "a">>, chainID |-> 11155111,
     address |-> AddressSepolia, forkVersion |-> <<144, 0, 0, 105>>,
     minVersion |-> 3, maxVersion |-> 4, subgraph |-> ""] >>

UserSuppliedNetwork ==
    <<"u", "s", "e", "r", "-", "s", "u", "p", "p", "l", "i", "e", "d", " ",
    "n", "e", "t", "w", "o", "r", "k">>

\* Texts given as --address.
\* 0x00000000219ab540356cBB839Cbe05303d7705Fa (the Mainnet contract, as the source writes it)
HexMainnet ==
    <<"0", "x", "0", "0", "0", "0", "0", "0", "0", "0", "2", "1", "9", "a",
    "b", "5", "4", "0", "3", "5", "6", "c", "B", "B", "8", "3", "9", "C",
    "b", "e", "0", "5", "3", "0", "3", "d", "7", "7", "0", "5", "F", "a">>

\* 00000000219ab540356cbb839cbe05303d7705fa (the same bytes, lower case, no 0x prefix)
HexMainnetLower ==
    <<"0", "0", "0", "0", "0", "0", "0", "0", "2", "1", "9", "a", "b", "5",
    "4", "0", "3", "5", "6", "c", "b", "b", "8", "3", "9", "c", "b", "e",
    "0", "5", "3", "0", "3", "d", "7", "7", "0", "5", "f", "a">>

\* 0x6f22fFbC56eFF051aECF839396DD1eD9aD6BBA9D (the Ropsten contract)
HexRopsten ==
    <<"0", "x", "6", "f", "2", "2", "f", "F", "b", "C", "5", "6", "e", "F",
    "F", "0", "5", "1", "a", "E", "C", "F", "8", "3", "9", "3", "9", "6",
    "D", "D", "1", "e", "D", "9", "a", "D", "6", "B", "B", "A", "9", "D">>

\* 0x00000000219ab540356cBB839Cbe05303d7705Fb (one byte away from the Mainnet contract)
HexUnknown ==
    <<"0", "x", "0", "0", "0", "0", "0", "0", "0", "0", "2", "1", "9", "a",
    "b", "5", "4", "0", "3", "5", "6", "c", "B", "B", "8", "3", "9", "C",
    "b", "e", "0", "5", "3", "0", "3", "d", "7", "7", "0", "5", "F", "b">>

\* 0x0g (not hexadecimal)
HexBad ==
    <<"0", "x", "0", "g">>

UpperLetters ==
    <<"A", "B", "C", "D", "E", "F", "G", "H", "I", "J", "K", "L", "M",
      "N", "O", "P", "Q", "R", "S", "T", "U", "V", "W", "X", "Y", "Z">>

LowerLetters ==
    <<"a", "b", "c", "d", "e", "f", "g", "h", "i", "j", "k", "l", "m",
      "n", "o", "p", "q", "r", "s", "t", "u", "v", "w", "x", "y", "z">>

Fold(ch) ==
    IF \E k \in 1..26 : UpperLetters[k] = ch
    THEN LowerLetters[CHOOSE k \in 1..26 : UpperLetters[k] = ch]
    ELSE ch

\* A plausible slip in EqualFold: the names compared as they are written.
EqualExact(a, b) == a = b

\* strings.EqualFold on texts of ASCII characters.
EqualFold(a, b) ==
    /\ Len(a) = Len(b)
    /\ \A k \in 1..Len(a) : Fold(a[k]) = Fold(b[k])

HexDigits ==
    <<"0", "1", "2", "3", "4", "5", "6", "7", "8", "9",
      "a", "b", "c", "d", "e", "f">>

\* The value of a hexadecimal digit of either case.
HexVal(ch) == (CHOOSE k \in 1..16 : HexDigits[k] = Fold(ch)) - 1

IsHexDigit(ch) == \E k \in 1..16 : HexDigits[k] = Fold(ch)

\* strings.TrimPrefix(s, "0x")
TrimPrefix0x(s) ==
    IF Len(s) >= 2 /\ s[1] = "0" /\ s[2] = "x" THEN SubSeq(s, 3, Len(s)) ELSE s

\* hex.DecodeString(s): an error for an odd length or a character that is
\* not a hexadecimal digit.
hexDecodeString(s) ==
    IF Len(s) % 2 = 1 \/ \E k \in 1..Len(s) : ~IsHexDigit(s[k])
    THEN [err |-> TRUE, bytes |-> <<>>]
    ELSE [err |-> FALSE,
          bytes |-> [k \in 1..(Len(s) \div 2) |->
                        HexVal(s[2 * k - 1]) * 16 + HexVal(s[2 * k])]]

\* A plausible slip in matchesKnown: the chain is not compared.
matchesKnownAnyChain(address, known) == address = known.address

\* The test of line 417.
matchesKnown(address, known) ==
    address = known.address /\ chainID = known.chainID

Registry == 1..Len(beaconDepositKnownContracts)

First(S) == CHOOSE k \in S : \A j \in S : k <= j

\* fetchBeaconDepositContract(contractAddress, network)
fetchBeaconDepositContract(contractAddress, network) ==
    LET dec == IF contractAddress # <<>>
               THEN hexDecodeString(TrimPrefix0x(contractAddress))
               ELSE [err |-> FALSE, bytes |-> <<>>]
        address == dec.bytes
        byAddress == {k \in Registry :
                         matchesKnown(address, beaconDepositKnownContracts[k])}
        byName == {k \in Registry :
                      EqualFold(network, beaconDepositKnownContracts[k].network)}
    IN  IF dec.err THEN [err |-> "InvalidAddress", contract |-> NoContract]
        ELSE IF Len(address) > 0
        THEN IF byAddress # {}
             THEN [err |-> NoErr,
                   contract |-> beaconDepositKnownContracts[First(byAddress)]]
             ELSE IF beaconDepositAllowUnknownContract
             THEN [err |-> NoErr,
                   contract |-> [network |-> UserSuppliedNetwork,
                                 chainID |-> chainID,
                                 address |-> address,
                                 forkVersion |-> <<>>,
                                 minVersion |-> 0,
                                 maxVersion |-> 999,
                                 subgraph |-> ""]]
             ELSE [err |-> "UnknownContract", contract |-> NoContract]
        ELSE IF network # <<>>
        THEN IF byName # {}
             THEN [err |-> NoErr,
                   contract |-> beaconDepositKnownContracts[First(byName)]]
             ELSE [err |-> "UnknownNetwork", contract |-> NoContract]
        ELSE [err |-> "MissingTarget", contract |-> NoContract]

---------------------------------------------------------------------------
(* The checks Run makes on one deposit before any is sent (lines 144-161). *)

Gwei1 == Dec3(0, 1, 0)      \* 1000000000

FirstErr(errs) ==
    IF \E k \in 1..Len(errs) : errs[k] # NoErr
    THEN errs[First({k \in 1..Len(errs) : errs[k] # NoErr})]
    ELSE NoErr

\* Lines 144-147.
fieldsCheck(deposit) ==
    IF /\ Len(deposit.PublicKey) > 0
       /\ Len(deposit.DepositDataRoot) > 0
       /\ Len(deposit.Signature) > 0
       /\ Len(deposit.WithdrawalCredentials) > 0
    THEN NoErr ELSE "MissingField"

\* A plausible slip in forkVersionCheck: only the leading byte is compared.
forkVersionCheckFirstByte(deposit) ==
    IF /\ Len(contract.forkVersion) # 0
       /\ Len(deposit.ForkVersion) # 0
       /\ deposit.ForkVersion[1] # contract.forkVersion[1]
    THEN "ForkVersionMismatch" ELSE NoErr

\* Lines 148-150.
forkVersionCheck(deposit) ==
    IF /\ Len(contract.forkVersion) # 0
       /\ Len(deposit.ForkVersion) # 0
       /\ deposit.ForkVersion # contract.forkVersion
    THEN "ForkVersionMismatch" ELSE NoErr

\* A plausible slip in amountCheck: the upper comparison strict.
amountCheckStrict(deposit) ==
    IF ~NatLe(Gwei1, deposit.Amount) THEN "AmountTooSmall"
    ELSE IF ~(NatLt(deposit.Amount, Gwei32) \/ beaconDepositAllowExcessiveDeposit)
    THEN "AmountExceedsEffectiveLimit"
    ELSE NoErr

\* Lines 151-152.
amountCheck(deposit) ==
    IF ~NatLe(Gwei1, deposit.Amount) THEN "AmountTooSmall"
    ELSE IF ~(NatLe(deposit.Amount, Gwei32) \/ beaconDepositAllowExcessiveDeposit)
    THEN "AmountExceedsEffectiveLimit"
    ELSE NoErr

\* A plausible slip in versionCheck: the two override flags exchanged.
versionCheckSwapped(deposit) ==
    IF ~(beaconDepositAllowNewData \/ deposit.Version >= contract.minVersion)
    THEN "SchemaTooOld"
    ELSE IF ~(beaconDepositAllowOldData \/ deposit.Version <= contract.maxVersion)
    THEN "SchemaTooNew"
    ELSE NoErr

\* Lines 156 and 159.
versionCheck(deposit) ==
    IF ~(beaconDepositAllowOldData \/ deposit.Version >= contract.minVersion)
    THEN "SchemaTooOld"
    ELSE IF ~(beaconDepositAllowNewData \/ deposit.Version <= contract.maxVersion)
    THEN "SchemaTooNew"
    ELSE NoErr

\* The body of the loop of lines 143-162: the first check that fails.
confirmDeposit(deposit) ==
    FirstErr(<<fieldsCheck(deposit), forkVersionCheck(deposit),
               amountCheck(deposit), versionCheck(deposit)>>)

---------------------------------------------------------------------------
(* loadDepositInfo (lines 195-225).  A text is a sequence of characters; a *)
(* deposit is written {a}, an array of deposits [{a},{b}].                 *)

WhiteSpace == {" ", "\n"}

RecordNames == {"a", "b"}

HasPrefix(s, ch) == Len(s) > 0 /\ s[1] = ch

\* "[" + input + "]"
Bracketed(s) == <<"[">> \o s \o <<"]">>

\* The text without the white space a JSON decoder passes over.
RECURSIVE Compact(_)
Compact(s) ==
    IF s = <<>> THEN <<>>
    ELSE IF Head(s) \in WhiteSpace THEN Compact(Tail(s))
    ELSE <<Head(s)>> \o Compact(Tail(s))

\* The deposits written in t, a text of the form {a},{b},...
RECURSIVE DecodeObjects(_)
DecodeObjects(t) ==
    IF Len(t) < 3 \/ t[1] # "{" \/ t[2] \notin RecordNames \/ t[3] # "}"
    THEN [err |-> TRUE, list |-> <<>>]
    ELSE IF Len(t) = 3 THEN [err |-> FALSE, list |-> <<t[2]>>]
    ELSE IF t[4] # "," THEN [err |-> TRUE, list |-> <<>>]
    ELSE LET rest == DecodeObjects(SubSeq(t, 5, Len(t)))
         IN  IF rest.err THEN rest
             ELSE [err |-> FALSE, list |-> <<t[2]>> \o rest.list]

\* util.DepositInfoFromJSON(data): the deposits of a JSON array, an error
\* for any other text.
DepositInfoFromJSON(data) ==
    LET t == Compact(data)
    IN  IF Len(t) < 2 \/ t[1] # "[" \/ t[Len(t)] # "]"
        THEN [err |-> TRUE, list |-> <<>>]
        ELSE IF Len(t) = 2 THEN [err |-> FALSE, list |-> <<>>]
        ELSE DecodeObjects(SubSeq(t, 2, Len(t) - 1))

\* Lines 217-224.
decodeDepositInfo(data) ==
    LET r == DepositInfoFromJSON(data)
    IN  IF r.err THEN [err |-> "BadDepositInfo", depositInfo |-> <<>>]
        ELSE IF Len(r.list) = 0 THEN [err |-> "NoDepositInfo", depositInfo |-> <<>>]
        ELSE [err |-> NoErr, depositInfo |-> r.list]

\* loadDepositInfo(input), where file is what os.ReadFile(input) gives: the
\* contents of the file of that name, or an error.  Line 212 reads data[0],
\* which panics for an empty file.
loadDepositInfo(input, file) ==
    IF HasPrefix(input, "{") THEN decodeDepositInfo(Bracketed(input))
    ELSE IF HasPrefix(input, "[") THEN decodeDepositInfo(input)
    ELSE IF ~file.exists THEN [err |-> "NoFile", depositInfo |-> <<>>]
    ELSE IF file.data = <<>> THEN [err |-> "panic", depositInfo |-> <<>>]
    ELSE IF file.data[1] = "{" THEN decodeDepositInfo(Bracketed(file.data))
    ELSE decodeDepositInfo(file.data)

---------------------------------------------------------------------------
(* Transaction value and gas limit (lines 237-258 and 286-307).            *)

\* string2eth.StringToWei(viper.GetString("value")): the option is carried
\* with the amount of Wei its text denotes, or as text that does not parse.
StringToWei(v) ==
    IF v.bad THEN [err |-> "BadValue", value |-> Zero]
    ELSE [err |-> NoErr, value |-> v.wei]

\* Lines 237-248 of sendOffline.
offlineValue(deposit) ==
    IF beaconDepositForceZeroValue THEN [err |-> NoErr, value |-> Zero]
    ELSE IF deposit.Amount = Zero
    THEN IF value.text = "" THEN [err |-> "MissingValue", value |-> Zero]
         ELSE StringToWei(value)
    ELSE [err |-> NoErr, value |-> NatMulE9(deposit.Amount)]

\* The Value generateTxOpts puts in the options: the --value option, zero
\* when it is not given.
generateTxOptsValue ==
    IF value.text = "" \/ value.bad THEN Zero ELSE value.wei

\* Lines 286-297 of sendOnline.
onlineValue(deposit) ==
    IF beaconDepositForceZeroValue THEN [err |-> NoErr, value |-> Zero]
    ELSE IF deposit.Amount = Zero
    THEN IF generateTxOptsValue = Zero
         THEN [err |-> "MissingValue", value |-> Zero]
         ELSE StringToWei(value)
    ELSE [err |-> NoErr, value |-> NatMulE9(deposit.Amount)]

\* Lines 249-258 and 299-307.
gasLimit ==
    IF beaconDepositOverrideGas # 0 THEN beaconDepositOverrideGas ELSE 160000

Transaction(index, deposit, txValue) ==
    [index |-> index, to |-> contract.address, pubKey |-> deposit.PublicKey,
     value |-> txValue, gasLimit |-> gasLimit]

---------------------------------------------------------------------------
(* The run of the command.  cli.Assert and cli.ErrCheck end the process    *)
(* with status 1 when their condition fails.                               *)

Die(kind, stage, index) ==
    /\ pc' = "exit"
    /\ exit' = [done |-> TRUE, code |-> 1, kind |-> kind, stage |-> stage,
                index |-> index]

\* Lines 133-138: the contract details.
Fetch ==
    /\ pc = "fetch"
    /\ IF beaconDepositContractAddress = <<>> /\ beaconDepositEth2Network = <<>>
       THEN Die("MissingTarget", "fetch", 0) /\ UNCHANGED contract
       ELSE LET r == fetchBeaconDepositContract(beaconDepositContractAddress,
                                                beaconDepositEth2Network)
            IN  IF r.err # NoErr
                THEN Die(r.err, "fetch", 0) /\ UNCHANGED contract
                ELSE contract' = r.contract /\ pc' = "chain" /\ UNCHANGED exit
    /\ UNCHANGED <<flagVars, depositInfo, idx, opts, printed, submitted,
                   graphLog, call, ret>>

\* A plausible slip in lastToConfirm: the loop stops one record early.
lastToConfirmShort == Len(depositInfo) - 1

\* Line 143: the loop runs over every record.
lastToConfirm == Len(depositInfo)

\* A plausible slip in ChainCheck: the chains are not compared.
ChainCheckOmitted ==
    /\ pc = "chain"
    /\ pc' = IF lastToConfirm >= 1 THEN "validate" ELSE "from"
    /\ idx' = 1
    /\ UNCHANGED exit
    /\ UNCHANGED <<flagVars, depositInfo, contract, opts, printed, submitted,
                   graphLog, call, ret>>

\* Line 140: the connection is to the chain of the contract.
ChainCheck ==
    /\ pc = "chain"
    /\ IF chainID = contract.chainID
       THEN /\ pc' = IF lastToConfirm >= 1 THEN "validate" ELSE "from"
            /\ idx' = 1
            /\ UNCHANGED exit
       ELSE Die("WrongChain", "chain", 0) /\ UNCHANGED idx
    /\ UNCHANGED <<flagVars, depositInfo, contract, opts, printed, submitted,
                   graphLog, call, ret>>

\* Lines 143-162: one turn of the loop that confirms the deposit data.
Validate ==
    /\ pc = "validate"
    /\ LET e == confirmDeposit(depositInfo[idx])
       IN  IF e # NoErr
           THEN Die(e, "validate", idx) /\ UNCHANGED idx
           ELSE /\ pc' = IF idx >= lastToConfirm THEN "from" ELSE "validate"
                /\ idx' = idx + 1
                /\ UNCHANGED exit
    /\ UNCHANGED <<flagVars, depositInfo, contract, opts, printed, submitted,
                   graphLog, call, ret>>

\* What resolveAddress looks at in the text of --from.
FromInputs ==
    { [text |-> "", dotted |-> FALSE, hexLen |-> 0],
      [text |-> "0x<40 hex digits>", dotted |-> FALSE, hexLen |-> 40],
      [text |-> "0x<41 hex digits>", dotted |-> FALSE, hexLen |-> 41],
      [text |-> "validator.eth", dotted |-> TRUE, hexLen |-> 13] }

\* resolveAddress(client, input): the error it returns.
resolveAddress(clientPresent, input, ensResolves) ==
    IF input.dotted
    THEN IF ~clientPresent THEN "NoClient"
         ELSE IF ensResolves THEN NoErr ELSE "EnsFailed"
    ELSE IF input.hexLen > 40 THEN "AddressTooLong"
    ELSE NoErr

\* Lines 164-172, and lines 276-281 of sendOnline: the sender, the choice
\* of the send loop, the binding of the contract.
ResolveFrom ==
    /\ pc = "from"
    /\ \E from \in FromInputs, clientPresent, ensResolves, bound \in BOOLEAN :
          LET e == resolveAddress(clientPresent, from, ensResolves)
          IN  /\ offline \/ clientPresent
              /\ IF from.text = "" THEN Die("MissingFrom", "from", 0) /\ UNCHANGED idx
                 ELSE IF e # NoErr THEN Die(e, "from", 0) /\ UNCHANGED idx
                 ELSE IF ~offline /\ ~bound
                 THEN Die("ContractBindingFailed", "from", 0) /\ UNCHANGED idx
                 ELSE /\ pc' = IF offline THEN "offline" ELSE "online_build"
                      /\ idx' = 1
                      /\ UNCHANGED exit
    /\ UNCHANGED <<flagVars, depositInfo, contract, opts, printed, submitted,
                   graphLog, call, ret>>

\* A variant of SendFailed: the failure is reported and the loop goes on with
\* the next record.
SendFailedContinue(kind) ==
    /\ pc' = IF offline THEN "offline" ELSE "online_build"
    /\ idx' = idx + 1
    /\ opts' = NoOpts
    /\ UNCHANGED exit

\* cli.Assert and cli.ErrCheck inside the send loops: the process ends.
SendFailed(kind) ==
    /\ Die(kind, "send", idx)
    /\ UNCHANGED <<idx, opts>>

\* Lines 232-272: one turn of the loop of sendOffline.
OfflineSend ==
    /\ pc = "offline"
    /\ idx <= Len(depositInfo)
    /\ LET deposit == depositInfo[idx]
           v == offlineValue(deposit)
       IN  IF v.err # NoErr THEN SendFailed(v.err) /\ UNCHANGED printed
           ELSE \E signed \in BOOLEAN :
                   IF signed
                   THEN /\ printed' = Append(printed, Transaction(idx, deposit, v.value))
                        /\ idx' = idx + 1
                        /\ UNCHANGED <<pc, opts, exit>>
                   ELSE SendFailed("SigningFailed") /\ UNCHANGED printed
    /\ UNCHANGED <<flagVars, depositInfo, contract, submitted, graphLog, call, ret>>

\* Lines 284-307: the transaction options of the next record.
OnlineBuild ==
    /\ pc = "online_build"
    /\ idx <= Len(depositInfo)
    /\ \E optsMade \in BOOLEAN :
          LET v == onlineValue(depositInfo[idx])
          IN  IF ~optsMade THEN SendFailed("TxOptsFailed")
              ELSE IF v.err # NoErr THEN SendFailed(v.err)
              ELSE /\ opts' = [set |-> TRUE, Value |-> v.value, GasLimit |-> gasLimit]
                   /\ pc' = "online_check"
                   /\ UNCHANGED <<idx, exit>>
    /\ UNCHANGED <<flagVars, depositInfo, contract, printed, submitted,
                   graphLog, call, ret>>

\* Responses the subgraph may give during a run: no deposit, one deposit of
\* 1000000000, an errors member alone and with an unparsable amount, and a
\* failed POST.  graphCheck on its own is exercised on more under SpecGraph.
RunResponses ==
    { DataResponse(<<>>),
      DataResponse(<<<<"1">> \o Zeros(9)>>),
      [status |-> "ok",
       errors |-> [present |-> TRUE, list |-> <<"indexing_error">>],
       data |-> NoData],
      [status |-> "ok",
       errors |-> [present |-> TRUE, list |-> <<"indexing_error">>],
       data |-> [present |-> TRUE, deposits |-> <<<<"1", "x">>>>]],
      [status |-> "post_failed", errors |-> NoErrors, data |-> NoData] }

\* A plausible slip in OnlineCheck: the subgraph is asked for the first
\* record of a batch only, and its answer stands for the records after it.
OnlineCheckCached ==
    /\ pc = "online_check"
    /\ IF contract.subgraph # "" /\ graphLog = <<>>
       THEN \E resp \in RunResponses :
               LET amount == Trunc64(opts.Value)
                   e == graphCheck(resp, amount)
               IN  /\ graphLog' = Append(graphLog,
                          [index |-> idx, pubKey |-> depositInfo[idx].PublicKey,
                           amount |-> amount, resp |-> resp, result |-> e])
                   /\ IF e # NoErr THEN SendFailed(e)
                      ELSE pc' = "online_submit" /\ UNCHANGED <<idx, opts, exit>>
       ELSE pc' = "online_submit" /\ UNCHANGED <<idx, opts, exit, graphLog>>
    /\ UNCHANGED <<flagVars, depositInfo, contract, printed, submitted, call, ret>>

\* Lines 311-314: the check against the subgraph, when the contract has one.
OnlineCheck ==
    /\ pc = "online_check"
    /\ IF contract.subgraph # ""
       THEN \E resp \in RunResponses :
               LET amount == Trunc64(opts.Value)
                   e == graphCheck(resp, amount)
               IN  /\ graphLog' = Append(graphLog,
                          [index |-> idx, pubKey |-> depositInfo[idx].PublicKey,
                           amount |-> amount, resp |-> resp, result |-> e])
                   /\ IF e # NoErr THEN SendFailed(e)
                      ELSE pc' = "online_submit" /\ UNCHANGED <<idx, opts, exit>>
       ELSE pc' = "online_submit" /\ UNCHANGED <<idx, opts, exit, graphLog>>
    /\ UNCHANGED <<flagVars, depositInfo, contract, printed, submitted, call, ret>>

\* Lines 316-336: nonce, fees, the deposit call and the handling of the
\* submitted transaction (status 2 when it is not mined in time).
OnlineSubmit ==
    /\ pc = "online_submit"
    /\ \E outcome \in {"ok", "NonceFailed", "FeesFailed", "DepositFailed", "NotMined"} :
          LET tx == Transaction(idx, depositInfo[idx], opts.Value)
          IN  IF outcome = "ok"
              THEN /\ submitted' = Append(submitted, tx)
                   /\ pc' = "online_build"
                   /\ idx' = idx + 1
                   /\ opts' = NoOpts
                   /\ UNCHANGED exit
              ELSE IF outcome = "NotMined"
              THEN /\ submitted' = Append(submitted, tx)
                   /\ pc' = "exit"
                   /\ exit' = [done |-> TRUE, code |-> 2, kind |-> "NotMined",
                               stage |-> "send", index |-> idx]
                   /\ UNCHANGED <<idx, opts>>
              ELSE SendFailed(outcome) /\ UNCHANGED submitted
    /\ UNCHANGED <<flagVars, depositInfo, contract, printed, graphLog, call, ret>>

\* Line 173: every record has been sent.
ExitSuccess ==
    /\ pc \in {"offline", "online_build"}
    /\ idx > Len(depositInfo)
    /\ pc' = "exit"
    /\ exit' = [done |-> TRUE, code |-> 0, kind |-> NoErr, stage |-> "done",
                index |-> 0]
    /\ UNCHANGED <<flagVars, depositInfo, contract, idx, opts, printed,
                   submitted, graphLog, call, ret>>

Next ==
    \/ Fetch
    \/ ChainCheck
    \/ Validate
    \/ ResolveFrom
    \/ OfflineSend
    \/ OnlineBuild
    \/ OnlineCheck
    \/ OnlineSubmit
    \/ ExitSuccess

---------------------------------------------------------------------------
(* The runs that are checked.                                              *)

MaxRecords == 2

Deposit(publicKey, amount, version, forkVersion) ==
    [Account |-> "validator",
     PublicKey |-> publicKey,
     WithdrawalCredentials |-> <<1>>,
     Signature |-> <<2>>,
     DepositDataRoot |-> <<3>>,
     Amount |-> amount,
     Version |-> version,
     ForkVersion |-> forkVersion]

\* Deposits of a batch: two that pass every check on Mainnet, one without an
\* amount, one without a public key.
RunDeposits ==
    { Deposit(<<10>>, Dec3(0, 32, 0), 3, <<0, 0, 0, 0>>),
      Deposit(<<11>>, Dec3(0, 1, 0), 4, <<>>),
      Deposit(<<12>>, Zero, 3, <<>>),
      Deposit(<<>>, Dec3(0, 32, 0), 3, <<>>) }

Batches == SeqsUpTo(RunDeposits, MaxRecords) \ {<<>>}

\* --address, --eth2network and the chain of the connection.
RunTargets ==
    { [address |-> HexMainnet, network |-> <<>>, chainID |-> 1],
      [address |-> <<>>, network |-> <<"R", "O", "P", "S", "T", "E", "N">>,
       chainID |-> 3],
      [address |-> HexUnknown, network |-> <<>>, chainID |-> 1],
      [address |-> <<>>, network |-> <<"m", "a", "i", "n", "n", "e", "t">>,
       chainID |-> 5],
      [address |-> <<>>, network |-> <<>>, chainID |-> 1] }

\* --value: 32 Ether, for the deposits that carry no amount.
RunValues ==
    { [text |-> "32 Ether", wei |-> Dec3(32, 0, 0), bad |-> FALSE] }

RunStart ==
    /\ contract = NoContract
    /\ pc = "fetch"
    /\ idx = 0
    /\ opts = NoOpts
    /\ printed = <<>>
    /\ submitted = <<>>
    /\ graphLog = <<>>
    /\ exit = NoExit
    /\ call = "none"
    /\ ret = "none"

Init ==
    /\ beaconDepositAllowOldData \in BOOLEAN
    /\ beaconDepositAllowNewData \in BOOLEAN
    /\ beaconDepositAllowExcessiveDeposit \in BOOLEAN
    /\ beaconDepositAllowUnknownContract \in BOOLEAN
    /\ beaconDepositAllowDuplicateDeposit \in BOOLEAN
    /\ beaconDepositForceZeroValue \in BOOLEAN
    /\ \E t \in RunTargets :
          /\ beaconDepositContractAddress = t.address
          /\ beaconDepositEth2Network = t.network
          /\ chainID = t.chainID
    /\ beaconDepositOverrideGas = 0
    /\ offline \in BOOLEAN
    /\ value \in RunValues
    /\ depositInfo \in Batches
    /\ RunStart

Spec == Init /\ [][Next]_vars

---------------------------------------------------------------------------
(* Values the run variables hold while a single function is exercised.     *)


RunIdle ==
    /\ depositInfo = <<>>
    /\ contract = NoContract
    /\ pc = "call"
    /\ idx = 0
    /\ opts = NoOpts
    /\ printed = <<>>
    /\ submitted = <<>>
    /\ graphLog = <<>>
    /\ exit = NoExit

---------------------------------------------------------------------------
(* graphCheck applied to chosen responses and amounts.                     *)

MaxDeposits == 2

\* Amounts as the subgraph reports them (decimal strings, in Gwei).
GraphAmounts ==
    { <<"0">>,
      <<"1">> \o Zeros(9),                             \* 1000000000
      <<"3", "0">> \o Zeros(9),                        \* 30000000000
      <<"3", "1">> \o Zeros(9),                        \* 31000000000
      <<"3", "2">> \o Zeros(9),                        \* 32000000000
      <<"9","2","2","3","3","7","2","0","3","6","8","5","4","7","7","5","8","0","7">>,
                                                       \* 2^63 - 1
      <<"9","2","2","3","3","7","2","0","3","6","8","5","4","7","7","5","8","0","8">>,
                                                       \* 2^63
      <<"1","8","4","4","6","7","4","4","0","7","3","7","0","9","5","5","1","6","1","5">>
                                                       \* 2^64 - 1
    }

FailedResponses ==
    { [status |-> st, errors |-> NoErrors, data |-> NoData] :
          st \in {"post_failed", "read_failed", "bad_json"} }

ErrorResponses ==
    { [status |-> "ok", errors |-> [present |-> TRUE, list |-> l], data |-> d] :
          l \in {<<>>, <<"indexing_error">>},
          d \in {NoData, [present |-> TRUE, deposits |-> <<<<"3", "2">> \o Zeros(9)>>]} }

GraphResponses ==
    {DataResponse(ds) : ds \in SeqsUpTo(GraphAmounts, MaxDeposits)}
        \cup {[status |-> "ok", errors |-> NoErrors, data |-> NoData]}
        \cup FailedResponses \cup ErrorResponses

\* Incoming amounts: Gwei amounts, Wei values, and the extremes of uint64.
IncomingAmounts ==
    { Zero, NatOfInt(1), Dec3(0, 1, 0), Dec3(0, 2, 0), Dec3(0, 3, 0),
      Dec3(0, 32, 0), Dec3(1, 0, 0),
      Trunc64(NatMulE9(Dec3(0, 32, 0))),
      Dec3(9, 223372036, 854775807), Dec3(9, 223372036, 854775808),
      MaxUint64 }

InitGraph ==
    /\ RunIdle
    /\ beaconDepositAllowOldData = FALSE
    /\ beaconDepositAllowNewData = FALSE
    /\ beaconDepositAllowExcessiveDeposit \in BOOLEAN
    /\ beaconDepositAllowUnknownContract = FALSE
    /\ beaconDepositAllowDuplicateDeposit \in BOOLEAN
    /\ beaconDepositForceZeroValue = FALSE
    /\ beaconDepositContractAddress = <<>>
    /\ beaconDepositEth2Network = <<>>
    /\ beaconDepositOverrideGas = 0
    /\ offline = FALSE
    /\ value = NoValue
    /\ chainID = 1
    /\ call \in [resp : GraphResponses, amount : IncomingAmounts]
    /\ ret = "pending"

GraphCheckCall ==
    /\ pc = "call"
    /\ ret = "pending"
    /\ ret' = graphCheck(call.resp, call.amount)
    /\ pc' = "returned"
    /\ UNCHANGED <<flagVars, depositInfo, contract, idx, opts, printed,
                   submitted, graphLog, exit, call>>

NextGraph == GraphCheckCall

SpecGraph == InitGraph /\ [][NextGraph]_vars

---------------------------------------------------------------------------
(* fetchBeaconDepositContract applied to chosen arguments.                 *)

\* The bytes HexUnknown denotes.
AddressUnknown ==
    <<0, 0, 0, 0, 33, 154, 181, 64, 53, 108, 187, 131, 156, 190, 5, 48, 61,
    119, 5, 251>>

\* Texts of --address with the bytes they denote, when they denote any.
ResolveAddresses ==
    { [text |-> <<>>, valid |-> TRUE, bytes |-> <<>>],
      [text |-> <<"0", "x">>, valid |-> TRUE, bytes |-> <<>>],
      [text |-> HexMainnet, valid |-> TRUE, bytes |-> AddressMainnet],
      [text |-> HexMainnetLower, valid |-> TRUE, bytes |-> AddressMainnet],
      [text |-> HexRopsten, valid |-> TRUE, bytes |-> AddressRopsten],
      [text |-> HexUnknown, valid |-> TRUE, bytes |-> AddressUnknown],
      [text |-> HexBad, valid |-> FALSE, bytes |-> <<>>] }

ResolveNetworks ==
    { <<>>,
      <<"m", "a", "i", "n", "n", "e", "t">>,
      <<"M", "A", "I", "N", "N", "E", "T">>,
      <<"R", "o", "p", "s", "t", "e", "n">>,
      <<"s", "E", "p", "O", "l", "I", "a">>,
      <<"g", "o", "e", "r", "l", "i">> }

ResolveChains == {1, 3, 5, 100}

InitResolve ==
    /\ RunIdle
    /\ beaconDepositAllowOldData = FALSE
    /\ beaconDepositAllowNewData = FALSE
    /\ beaconDepositAllowExcessiveDeposit = FALSE
    /\ beaconDepositAllowUnknownContract \in BOOLEAN
    /\ beaconDepositAllowDuplicateDeposit = FALSE
    /\ beaconDepositForceZeroValue = FALSE
    /\ call \in ResolveAddresses
    /\ beaconDepositContractAddress = call.text
    /\ beaconDepositEth2Network \in ResolveNetworks
    /\ beaconDepositOverrideGas = 0
    /\ offline = FALSE
    /\ value = NoValue
    /\ chainID \in ResolveChains
    /\ ret = [err |-> "pending", contract |-> NoContract]

ResolveCall ==
    /\ pc = "call"
    /\ ret' = fetchBeaconDepositContract(beaconDepositContractAddress,
                                         beaconDepositEth2Network)
    /\ pc' = "returned"
    /\ UNCHANGED <<flagVars, depositInfo, contract, idx, opts, printed,
                   submitted, graphLog, exit, call>>

NextResolve == ResolveCall

SpecResolve == InitResolve /\ [][NextResolve]_vars

---------------------------------------------------------------------------
(* Runs on a single deposit, over the amounts, versions and fork versions  *)
(* that lie on and around every threshold of the checks.                   *)

CheckedAmounts ==
    { Zero, Dec3(0, 0, 999999999), Dec3(0, 1, 0), Dec3(0, 32, 0),
      Dec3(0, 32, 1), MaxUint64 }

CheckedVersions == {0, 2, 3, 4, 5, 999, 1000}

CheckedForkVersions == {<<>>, <<0, 0, 0, 0>>}

CheckedDeposits ==
    { Deposit(<<10>>, a, v, f) :
          a \in CheckedAmounts, v \in CheckedVersions, f \in CheckedForkVersions }

\* Mainnet by address, Ropsten by name, an unknown address.
CheckedTargets ==
    { t \in RunTargets : t.chainID \in {1, 3} /\ (t.address # <<>> \/ t.network # <<>>) }

InitValidate ==
    /\ beaconDepositAllowOldData \in BOOLEAN
    /\ beaconDepositAllowNewData \in BOOLEAN
    /\ beaconDepositAllowExcessiveDeposit \in BOOLEAN
    /\ beaconDepositAllowUnknownContract \in BOOLEAN
    /\ beaconDepositAllowDuplicateDeposit \in BOOLEAN
    /\ beaconDepositForceZeroValue \in BOOLEAN
    /\ \E t \in CheckedTargets :
          /\ beaconDepositContractAddress = t.address
          /\ beaconDepositEth2Network = t.network
          /\ chainID = t.chainID
    /\ beaconDepositOverrideGas = 0
    /\ offline \in BOOLEAN
    /\ value \in RunValues
    /\ \E d \in CheckedDeposits : depositInfo = <<d>>
    /\ RunStart

SpecValidate == InitValidate /\ [][Next]_vars

---------------------------------------------------------------------------
(* Runs on a single deposit that passes every other check, over fork       *)
(* versions equal to, close to and unlike those of the registry.           *)

ForkVersions ==
    { <<>>, <<0, 0, 0, 0>>, <<0, 0, 0, 1>>, <<0>>, <<128, 0, 0, 105>> }

InitFork ==
    /\ beaconDepositAllowOldData \in BOOLEAN
    /\ beaconDepositAllowNewData \in BOOLEAN
    /\ beaconDepositAllowExcessiveDeposit \in BOOLEAN
    /\ beaconDepositAllowUnknownContract \in BOOLEAN
    /\ beaconDepositAllowDuplicateDeposit \in BOOLEAN
    /\ beaconDepositForceZeroValue \in BOOLEAN
    /\ \E t \in CheckedTargets :
          /\ beaconDepositContractAddress = t.address
          /\ beaconDepositEth2Network = t.network
          /\ chainID = t.chainID
    /\ beaconDepositOverrideGas = 0
    /\ offline \in BOOLEAN
    /\ value \in RunValues
    /\ \E f \in ForkVersions : depositInfo = <<Deposit(<<10>>, Gwei32, 3, f)>>
    /\ RunStart

SpecFork == InitFork /\ [][Next]_vars

---------------------------------------------------------------------------
(* loadDepositInfo applied to chosen inputs and files.                     *)

LoadBodies ==
    { <<"{", "a", "}">>,
      <<"[", "{", "a", "}", "]">>,
      <<"[", "{", "a", "}", ",", " ", "{", "b", "}", "]">>,
      <<"[", "]">>,
      <<"{", "a">> }

LoadLeads == { <<>>, <<" ">>, <<"\n">> }

LoadTexts == { l \o b : l \in LoadLeads, b \in LoadBodies }

\* --data: JSON text or the name of a file.
LoadInputs == LoadTexts \cup { <<"d", ".", "j", "s", "o", "n">> }

\* What reading the file named by --data gives.
LoadFiles ==
    { [exists |-> FALSE, data |-> <<>>], [exists |-> TRUE, data |-> <<>>] }
        \cup { [exists |-> TRUE, data |-> t] : t \in LoadTexts }

InitLoad ==
    /\ RunIdle
    /\ beaconDepositAllowOldData = FALSE
    /\ beaconDepositAllowNewData = FALSE
    /\ beaconDepositAllowExcessiveDeposit = FALSE
    /\ beaconDepositAllowUnknownContract = FALSE
    /\ beaconDepositAllowDuplicateDeposit = FALSE
    /\ beaconDepositForceZeroValue = FALSE
    /\ beaconDepositContractAddress = <<>>
    /\ beaconDepositEth2Network = <<>>
    /\ beaconDepositOverrideGas = 0
    /\ offline = FALSE
    /\ value = NoValue
    /\ chainID = 1
    /\ call \in [input : LoadInputs, file : LoadFiles]
    /\ ret = [err |-> "pending", depositInfo |-> <<>>]

LoadCall ==
    /\ pc = "call"
    /\ ret' = loadDepositInfo(call.input, call.file)
    /\ pc' = "returned"
    /\ UNCHANGED <<flagVars, depositInfo, contract, idx, opts, printed,
                   submitted, graphLog, exit, call>>

NextLoad == LoadCall

SpecLoad == InitLoad /\ [][NextLoad]_vars

---------------------------------------------------------------------------
(* The value and gas limit of sendOffline and of sendOnline for one        *)
(* deposit, over chosen amounts, --value texts and gas overrides.          *)

BuildAmounts ==
    { Zero, NatOfInt(1), Dec3(0, 1, 0), Dec3(0, 32, 0), MaxUint64 }

\* --value: not given, "0", "32 Ether", and a text that is no amount.
BuildValues ==
    { NoValue,
      [text |-> "0", wei |-> Zero, bad |-> FALSE],
      [text |-> "32 Ether", wei |-> Dec3(32, 0, 0), bad |-> FALSE],
      [text |-> "abc", wei |-> Zero, bad |-> TRUE] }

BuildGas == {0, 21000, 500000}

InitBuild ==
    /\ RunIdle
    /\ beaconDepositAllowOldData = FALSE
    /\ beaconDepositAllowNewData = FALSE
    /\ beaconDepositAllowExcessiveDeposit = FALSE
    /\ beaconDepositAllowUnknownContract = FALSE
    /\ beaconDepositAllowDuplicateDeposit = FALSE
    /\ beaconDepositForceZeroValue \in BOOLEAN
    /\ beaconDepositContractAddress = <<>>
    /\ beaconDepositEth2Network = <<>>
    /\ beaconDepositOverrideGas \in BuildGas
    /\ offline = FALSE
    /\ value \in BuildValues
    /\ chainID = 1
    /\ \E a \in BuildAmounts : call = Deposit(<<10>>, a, 3, <<>>)
    /\ ret = "pending"

BuildCall ==
    /\ pc = "call"
    /\ ret' = [offline |-> [value |-> offlineValue(call), gasLimit |-> gasLimit],
               online |-> [value |-> onlineValue(call), gasLimit |-> gasLimit]]
    /\ pc' = "returned"
    /\ UNCHANGED <<flagVars, depositInfo, contract, idx, opts, printed,
                   submitted, graphLog, exit, call>>

NextBuild == BuildCall

SpecBuild == InitBuild /\ [][NextBuild]_vars

---------------------------------------------------------------------------
(* The duplicate check as arithmetic on numbers, for the claims.           *)

Two63 == Dec3(9, 223372036, 854775808)

\* A response that parsed and carries no errors member.
CleanResponse(resp) == resp.status = "ok" /\ ~resp.errors.present

AllParse(deposits) ==
    \A k \in 1..Len(deposits) : ~ParseUint(deposits[k]).err

\* The prior total as a number, without any wrap-around.
RECURSIVE TrueTotal(_)
TrueTotal(deposits) ==
    IF deposits = <<>> THEN Zero
    ELSE NatAdd(ParseUint(Head(deposits)).val, TrueTotal(Tail(deposits)))

\* Prior total, incoming amount and their sum all fit a signed 64-bit integer.
NoWrap(deposits, amount) ==
    /\ NatLt(amount, Two63)
    /\ NatLt(NatAdd(TrueTotal(deposits), amount), Two63)

DuplicateReference(deposits, amount) ==
    LET P == TrueTotal(deposits)
    IN  IF Len(deposits) = 0 THEN NoErr
        ELSE IF NatLe(Gwei32, P) /\ ~beaconDepositAllowDuplicateDeposit
        THEN "ValidatorAlreadyFunded"
        ELSE IF NatLt(Gwei32, NatAdd(P, amount))
                /\ ~beaconDepositAllowDuplicateDeposit
                /\ ~beaconDepositAllowExcessiveDeposit
        THEN "WouldExceedEffectiveLimit"
        ELSE NoErr

---------------------------------------------------------------------------
(* Claims about a run of the command (Spec).                               *)

SendStages == {"offline", "online_build", "online_check", "online_submit"}

\* The transactions that left the program: printed offline, submitted online.
Sent == printed \o submitted

\* Something of a transaction exists: options built, a query made, a
\* transaction printed or submitted.
SendingBegun ==
    opts.set \/ graphLog # <<>> \/ printed # <<>> \/ submitted # <<>>

\* C1: validation is all-or-nothing.  If any record of the batch, at any
\* index, fails a validation check, then nothing is built, queried, printed
\* or submitted for any record of the batch.
C1_ValidationAllOrNothing ==
    SendingBegun =>
        \A k \in 1..Len(depositInfo) : confirmDeposit(depositInfo[k]) = NoErr

\* A two-record batch whose last record fails ended the run with nothing sent.
C1_Witness ==
    /\ exit.done
    /\ exit.stage = "validate"
    /\ Len(depositInfo) = 2
    /\ exit.index = 2
    /\ confirmDeposit(depositInfo[1]) = NoErr
    /\ ~SendingBegun

\* C2: a response with a non-empty errors array makes the duplicate check
\* return an error, and the record is not submitted.
C2_IndexerErrorsAreFatal ==
    \A k \in 1..Len(graphLog) :
        LET q == graphLog[k]
        IN  (q.resp.status = "ok" /\ q.resp.errors.present
             /\ q.resp.errors.list # <<>>)
                => /\ q.result # NoErr
                   /\ \A j \in 1..Len(submitted) : submitted[j].index # q.index

\* C3: a record with amount 0 is not refused as too small; it is sent with
\* the value of --value, and with value 0 under --force-zero-value.
C3_ZeroAmountUsesExternalValue ==
    /\ (exit.done /\ exit.kind = "AmountTooSmall")
           => depositInfo[exit.index].Amount # Zero
    /\ \A k \in 1..Len(Sent) :
           LET deposit == depositInfo[Sent[k].index]
           IN  /\ beaconDepositForceZeroValue => Sent[k].value = Zero
               /\ (~beaconDepositForceZeroValue /\ deposit.Amount = Zero)
                      => Sent[k].value = value.wei

\* C5: the amount handed to the duplicate check is in the unit of the prior
\* total: for a record of amount A whose validator has prior total P with
\* 0 < P < 32000000000 and P + A <= 32000000000 the check passes, whatever
\* the override flags.
C5_IncomingAmountInIndexerUnits ==
    \A k \in 1..Len(graphLog) :
        LET q == graphLog[k]
            A == depositInfo[q.index].Amount
            P == TrueTotal(q.resp.data.deposits)
        IN  (/\ CleanResponse(q.resp)
             /\ ~beaconDepositForceZeroValue
             /\ NatLt(Zero, P)
             /\ NatLt(P, Gwei32)
             /\ NatLe(NatAdd(P, A), Gwei32))
                => q.amount = A /\ q.result = NoErr

\* C7 as stated: after an error on record i during sending, the records
\* after i are still processed.
C7_LaterRecordsStillProcessed ==
    (exit.done /\ exit.stage = "send" /\ exit.code = 1)
        => \A j \in (exit.index + 1)..Len(depositInfo) : j <= idx

\* C7 as amended: the records are sent in input order, each once and none
\* skipped, and an error on record i ends the run at record i with records
\* 1 to i - 1 sent and nothing done for the records after i.
C7_FailureEndsBatch ==
    /\ \A k \in 1..Len(Sent) : Sent[k].index = k
    /\ \A k \in 1..Len(graphLog) : graphLog[k].index <= idx
    /\ pc \in SendStages => Len(Sent) = idx - 1
    /\ (exit.done /\ exit.stage = "send" /\ exit.code = 1)
           => idx = exit.index /\ Len(Sent) = exit.index - 1
    /\ (exit.done /\ exit.code = 0) => Len(Sent) = Len(depositInfo)

\* The second record of a batch failed after the first was submitted.
C7_Witness ==
    /\ exit.done
    /\ exit.stage = "send"
    /\ exit.code = 1
    /\ exit.index = 2
    /\ Len(submitted) = 1
    /\ submitted[1].index = 1

---------------------------------------------------------------------------
(* Claims about graphCheck as a function (SpecGraph).                      *)

\* C4: without 64-bit wrap-around the duplicate check returns what the
\* reference gives: pass when no deposit is reported; ValidatorAlreadyFunded
\* when the prior total is at least 32000000000 and allow-duplicate-deposit
\* is off; otherwise WouldExceedEffectiveLimit when prior total plus incoming
\* amount is above 32000000000 and neither allow-duplicate-deposit nor
\* allow-excessive-deposit is on; otherwise pass.
C4_DuplicateCheckReference ==
    (/\ pc = "returned"
     /\ CleanResponse(call.resp)
     /\ AllParse(call.resp.data.deposits)
     /\ NoWrap(call.resp.data.deposits, call.amount))
        => ret = DuplicateReference(call.resp.data.deposits, call.amount)

\* Prior total exactly 32000000000 with only allow-excessive-deposit set is
\* refused as already funded.
C4_Witness ==
    /\ pc = "returned"
    /\ CleanResponse(call.resp)
    /\ call.resp.data.deposits = <<<<"3", "2">> \o Zeros(9)>>
    /\ call.amount = Zero
    /\ beaconDepositAllowExcessiveDeposit
    /\ ~beaconDepositAllowDuplicateDeposit
    /\ ret = "ValidatorAlreadyFunded"

\* C6: with no override flag, whenever the subgraph reports deposits whose
\* true total is at least 32000000000, or whose true total plus the incoming
\* amount is above 32000000000, the duplicate check fails, over the whole
\* 64-bit range of the amounts.
C6_ThresholdsOverFullRange ==
    (/\ pc = "returned"
     /\ CleanResponse(call.resp)
     /\ Len(call.resp.data.deposits) > 0
     /\ AllParse(call.resp.data.deposits)
     /\ ~beaconDepositAllowDuplicateDeposit
     /\ ~beaconDepositAllowExcessiveDeposit
     /\ \/ NatLe(Gwei32, TrueTotal(call.resp.data.deposits))
        \/ NatLt(Gwei32, NatAdd(TrueTotal(call.resp.data.deposits), call.amount)))
        => ret # NoErr

---------------------------------------------------------------------------
(* Claims about fetchBeaconDepositContract as a function (SpecResolve).    *)

\* C8: for a non-empty address A, the lookup returns the registry entry D
\* exactly when A is D's address byte for byte and the chain of the
\* connection is D's chain; when no entry satisfies both and
\* allow-unknown-contract is off it fails with UnknownContract, whatever
\* network name is given alongside.
C8_ResolveByAddress ==
    (pc = "returned" /\ call.valid /\ call.bytes # <<>>) =>
        LET Matches(k) == /\ call.bytes = beaconDepositKnownContracts[k].address
                          /\ chainID = beaconDepositKnownContracts[k].chainID
        IN  /\ \A k \in Registry :
                   (ret.err = NoErr /\ ret.contract = beaconDepositKnownContracts[k])
                       <=> Matches(k)
            /\ ((\A k \in Registry : ~Matches(k)) /\ ~beaconDepositAllowUnknownContract)
                   => ret.err = "UnknownContract"

\* The Mainnet address on the chain of Prater, with the name mainnet given
\* alongside, is an unknown contract.
C8_Witness ==
    /\ pc = "returned"
    /\ call.bytes = AddressMainnet
    /\ chainID = 5
    /\ beaconDepositEth2Network = <<"m", "a", "i", "n", "n", "e", "t">>
    /\ ~beaconDepositAllowUnknownContract
    /\ ret.err = "UnknownContract"

---------------------------------------------------------------------------
(* Claims about the checks on one deposit (SpecValidate).                  *)

\* The number of records the validation loop has judged.
Judged ==
    IF pc \in {"fetch", "chain"} THEN 0
    ELSE IF pc = "validate" THEN idx - 1
    ELSE IF exit.done /\ exit.stage \in {"fetch", "chain"} THEN 0
    ELSE IF exit.done /\ exit.stage = "validate" THEN exit.index
    ELSE Len(depositInfo)

\* The verdict of the loop on record k.
Verdict(k) ==
    IF exit.done /\ exit.stage = "validate" /\ exit.index = k
    THEN exit.kind ELSE NoErr

\* C9: an amount in [1000000000, 32000000000] passes the amount checks
\* without an override; a nonzero amount below 1000000000 fails with
\* AmountTooSmall under every flag combination; an amount above 32000000000
\* fails with AmountExceedsEffectiveLimit exactly when
\* allow-excessive-deposit is off.
C9_AmountChecks ==
    \A k \in 1..Judged :
        LET deposit == depositInfo[k]
            A == deposit.Amount
        IN  (fieldsCheck(deposit) = NoErr /\ forkVersionCheck(deposit) = NoErr) =>
                /\ (NatLe(Gwei1, A) /\ NatLe(A, Gwei32))
                       => Verdict(k) \notin {"AmountTooSmall", "AmountExceedsEffectiveLimit"}
                /\ (A # Zero /\ NatLt(A, Gwei1)) => Verdict(k) = "AmountTooSmall"
                /\ NatLt(Gwei32, A)
                       => (Verdict(k) = "AmountExceedsEffectiveLimit"
                              <=> ~beaconDepositAllowExcessiveDeposit)

\* A deposit of exactly 32000000000 passed with no override at all.
C9_Witness ==
    /\ pc = "from"
    /\ depositInfo[1].Amount = Gwei32
    /\ ~beaconDepositAllowExcessiveDeposit
    /\ ~beaconDepositAllowOldData
    /\ ~beaconDepositAllowNewData

\* C10: a version within [minVersion, maxVersion], bounds included, passes
\* the version checks; a version below minVersion fails with SchemaTooOld
\* exactly when allow-old-data is off; a version above maxVersion fails with
\* SchemaTooNew exactly when allow-new-data is off.
C10_VersionChecks ==
    \A k \in 1..Judged :
        LET deposit == depositInfo[k]
            v == deposit.Version
        IN  (/\ fieldsCheck(deposit) = NoErr
             /\ forkVersionCheck(deposit) = NoErr
             /\ amountCheck(deposit) = NoErr) =>
                /\ (contract.minVersion <= v /\ v <= contract.maxVersion)
                       => Verdict(k) \notin {"SchemaTooOld", "SchemaTooNew"}
                /\ v < contract.minVersion
                       => (Verdict(k) = "SchemaTooOld" <=> ~beaconDepositAllowOldData)
                /\ v > contract.maxVersion
                       => (Verdict(k) = "SchemaTooNew" <=> ~beaconDepositAllowNewData)

\* A version one above maxVersion is refused as too new although
\* allow-old-data is on.
C10_Witness ==
    /\ exit.done
    /\ exit.kind = "SchemaTooNew"
    /\ depositInfo[1].Version = contract.maxVersion + 1
    /\ beaconDepositAllowOldData
    /\ ~beaconDepositAllowNewData

\* C11: the fork version check has no override.  Under every combination of
\* the override flags, a record whose fork version and the contract's are
\* both non-empty and differ in some byte fails with ForkVersionMismatch and
\* nothing is built for the batch; the check is skipped only when one of
\* the two fork versions is empty.
C11_ForkVersionNotOverridable ==
    \A k \in 1..Judged :
        LET deposit == depositInfo[k]
            both == contract.forkVersion # <<>> /\ deposit.ForkVersion # <<>>
        IN  fieldsCheck(deposit) = NoErr =>
                /\ (both /\ deposit.ForkVersion # contract.forkVersion)
                       => (Verdict(k) = "ForkVersionMismatch" /\ ~SendingBegun)
                /\ Verdict(k) = "ForkVersionMismatch"
                       => (both /\ deposit.ForkVersion # contract.forkVersion)

\* A fork version that differs from Mainnet's in its last byte only is
\* refused with every override flag on.
C11_Witness ==
    /\ exit.done
    /\ exit.kind = "ForkVersionMismatch"
    /\ contract.forkVersion = <<0, 0, 0, 0>>
    /\ depositInfo[1].ForkVersion = <<0, 0, 0, 1>>
    /\ beaconDepositAllowOldData
    /\ beaconDepositAllowNewData
    /\ beaconDepositAllowExcessiveDeposit
    /\ beaconDepositAllowUnknownContract
    /\ beaconDepositAllowDuplicateDeposit
    /\ beaconDepositForceZeroValue
    /\ ~SendingBegun

---------------------------------------------------------------------------
(* Claims about the order of the checks and submissions of a run (Spec).   *)

\* C12: online, with a contract that names a subgraph, the duplicate check
\* is made once per record, in input order, after the submission of the
\* record before and ahead of the record's own submission; every submitted
\* record has its own successful check, made for its public key and for the
\* 64-bit value of its transaction value, whose result comes from its own
\* response alone; a record whose check failed is never submitted.  Without
\* a subgraph, and offline, no query is made.
C12_CheckPerRecordBeforeSubmit ==
    /\ \A k \in 1..Len(graphLog) :
           /\ graphLog[k].index = k
           /\ graphLog[k].pubKey = depositInfo[k].PublicKey
           /\ graphLog[k].result = graphCheck(graphLog[k].resp, graphLog[k].amount)
           /\ graphLog[k].result # NoErr
                  => \A j \in 1..Len(submitted) : submitted[j].index # k
    /\ graphLog # <<>> => (~offline /\ contract.subgraph # "")
    /\ (submitted # <<>> /\ contract.subgraph # "") =>
           /\ Len(submitted) <= Len(graphLog)
           /\ Len(graphLog) <= Len(submitted) + 1
           /\ \A j \in 1..Len(submitted) :
                  /\ graphLog[j].index = submitted[j].index
                  /\ graphLog[j].result = NoErr
                  /\ graphLog[j].pubKey = submitted[j].pubKey
                  /\ graphLog[j].amount = Trunc64(submitted[j].value)
    /\ (pc = "online_submit" /\ contract.subgraph # "") =>
           /\ Len(graphLog) = idx
           /\ Len(submitted) = idx - 1
           /\ graphLog[idx].result = NoErr

\* Two records were submitted on Mainnet, each after a check of its own.
C12_Witness ==
    /\ Len(submitted) = 2
    /\ Len(graphLog) = 2
    /\ contract.subgraph # ""
    /\ graphLog[1].pubKey # graphLog[2].pubKey
    /\ graphLog[1].resp # graphLog[2].resp

\* The query did not give a usable answer: the POST failed, the body could
\* not be read or decoded, or a reported amount is not a decimal number.
Unusable(resp) ==
    \/ resp.status \in {"post_failed", "read_failed", "bad_json"}
    \/ /\ resp.status = "ok"
       /\ resp.data.present
       /\ ~AllParse(resp.data.deposits)

\* C13: when the query fails in transport, its body cannot be read or
\* decoded, or a reported amount is not a decimal unsigned integer, the
\* duplicate check returns an error and the record is not submitted.
C13_UnusableAnswerIsFatal ==
    \A k \in 1..Len(graphLog) :
        Unusable(graphLog[k].resp) =>
            /\ graphLog[k].result # NoErr
            /\ \A j \in 1..Len(submitted) : submitted[j].index # graphLog[k].index

---------------------------------------------------------------------------
(* Claims about loadDepositInfo as a function (SpecLoad).                  *)

\* The first character of s that is not white space ("" when there is none).
RECURSIVE FirstNonSpace(_)
FirstNonSpace(s) ==
    IF s = <<>> THEN ""
    ELSE IF Head(s) \in WhiteSpace THEN FirstNonSpace(Tail(s))
    ELSE Head(s)

\* C14: the input, and the contents of a file, are classified by their
\* first character that is not white space: a text whose first such
\* character is "{" loads exactly as the same text within "[" and "]",
\* with or without white space ahead of the "{", and only an input whose
\* first such character is neither "{" nor "[" is taken as a file name.
C14_ClassifiedByFirstNonSpace ==
    pc = "returned" =>
        LET first == FirstNonSpace(call.input)
        IN  /\ first = "{"
                   => ret = loadDepositInfo(Bracketed(call.input), call.file)
            /\ first \in {"{", "["} => ret.err # "NoFile"
            /\ (first \notin {"{", "["} /\ call.file.exists
                 /\ FirstNonSpace(call.file.data) = "{")
                   => ret = loadDepositInfo(Bracketed(call.file.data), call.file)

---------------------------------------------------------------------------
(* Claims about the lookup by network name (SpecResolve).                  *)

\* The text s in lower case.
LowerCase(s) == [k \in 1..Len(s) |-> Fold(s[k])]

\* C15: without an address, the lookup returns the registry entry whose
\* network name is the given name up to the case of its letters, whatever
\* the chain of the connection; a name that is no entry's gives
\* UnknownNetwork, and neither address nor name gives MissingTarget.
C15_ResolveByName ==
    (pc = "returned" /\ beaconDepositContractAddress = <<>>) =>
        LET name == beaconDepositEth2Network
            Named(k) == LowerCase(beaconDepositKnownContracts[k].network)
                            = LowerCase(name)
        IN  /\ \A k \in Registry :
                   (ret.err = NoErr /\ ret.contract = beaconDepositKnownContracts[k])
                       <=> (name # <<>> /\ Named(k))
            /\ (name # <<>> /\ \A k \in Registry : ~Named(k))
                   => ret.err = "UnknownNetwork"
            /\ name = <<>> => ret.err = "MissingTarget"
            /\ name \in {<<"m", "a", "i", "n", "n", "e", "t">>,
                          <<"M", "A", "I", "N", "N", "E", "T">>}
                   => ret.contract = beaconDepositKnownContracts[1]

\* MAINNET, on a connection to another chain, gives the Mainnet entry.
C15_Witness ==
    /\ pc = "returned"
    /\ beaconDepositContractAddress = <<>>
    /\ beaconDepositEth2Network = <<"M", "A", "I", "N", "N", "E", "T">>
    /\ chainID = 3
    /\ ret.err = NoErr
    /\ ret.contract.chainID = 1

---------------------------------------------------------------------------
(* Claims about the value and gas limit of a transaction (SpecBuild).      *)

---------------------------------------------------------------------------
(* Claims about the chain of the connection (Spec).                        *)

\* The run has gone past line 140: a record is being or has been judged,
\* the sender resolved, or something of a transaction exists.
PastChainCheck ==
    \/ pc \in {"validate", "from"} \cup SendStages
    \/ exit.done /\ exit.stage \in {"validate", "from", "send", "done"}
    \/ SendingBegun

\* C17: no record is validated, built or submitted unless the chain of the
\* resolved contract is the chain of the connection, on every path of the
\* lookup: by address, by network name and for the synthetic contract.
C17_ChainMatchesBeforeAnyRecord ==
    PastChainCheck => (contract # NoContract /\ contract.chainID = chainID)

\* Mainnet found by name on a connection to chain 5: the run ended at the
\* chain check with no record judged and nothing sent.
C17_Witness ==
    /\ exit.done
    /\ exit.kind = "WrongChain"
    /\ beaconDepositContractAddress = <<>>
    /\ contract.chainID = 1
    /\ chainID = 5
    /\ Judged = 0
    /\ ~SendingBegun

---------------------------------------------------------------------------
(* Claims about the synthetic contract (SpecValidate).                     *)

\* C18: for an address that matches no registry entry on the chain of the
\* connection, with allow-unknown-contract, the lookup gives a contract
\* with that address, the chain of the connection, no fork version, no
\* subgraph and minVersion 0, against which no record fails with
\* ForkVersionMismatch, SchemaTooOld or SchemaTooNew whatever its fork
\* version and version, and for which no subgraph is queried.
C18_SyntheticContractAcceptsAll ==
    (contract # NoContract /\ contract.network = UserSuppliedNetwork) =>
        /\ beaconDepositAllowUnknownContract
        /\ contract.address = AddressUnknown
        /\ contract.chainID = chainID
        /\ contract.forkVersion = <<>>
        /\ contract.subgraph = ""
        /\ contract.minVersion = 0
        /\ graphLog = <<>>
        /\ exit.done => exit.kind \notin
               {"ForkVersionMismatch", "SchemaTooOld", "SchemaTooNew"}

=============================================================================
